---- MODULE Spec2Model ----
(***************************************************************************)
(* Model of heron/models/git_llm/git_wizard/modeling_git_wizard.py:        *)
(* the attention-mask composition of GitGPTBigCodeModel, the forward pass  *)
(* of GitGPTBigCodeModel and GitGPTBigCodeForCausalLM as seen by a caller  *)
(* that threads the returned cache through successive calls.               *)
(*                                                                         *)
(* Tensors are modelled by their shape and their entries where the entries *)
(* decide a mask, and by their shape alone for embeddings and logits.      *)
(* Indices are 0-based, as in the source.                                  *)
(*                                                                         *)
(* Four specifications share the definitions:                              *)
(*   Spec       one forward call of GitGPTBigCodeForCausalLM on arguments  *)
(*              drawn in Init, the cache among them;                       *)
(*   SpecMask   one direct call of create_attention_mask;                  *)
(*   SpecDecode a decoding sequence: a first call, then calls that carry   *)
(*              the cache the previous call returned;                      *)
(*   SpecModel  one direct forward call of GitGPTBigCodeModel, with        *)
(*              token_type_ids, an image batch of its own size, and a      *)
(*              module in training or evaluation mode with or without      *)
(*              gradient checkpointing.                                    *)
(* The calls supply no position_ids, head_mask or encoder states; a user   *)
(* attention_mask has shape [batch, N]. In Spec, SpecMask and SpecDecode   *)
(* the module is in evaluation mode and pixel_values has the batch size of *)
(* the text.                                                               *)
(***************************************************************************)
EXTENDS Integers, Sequences, FiniteSets, TLC

VARIABLES
    config,           \* the module: num_image_with_embedding and multi_query of its
                      \* GitGPTBigCodeConfig, its training and gradient_checkpointing flags
    call,             \* the arguments of the latest forward call
    out,              \* what the latest forward call returned or raised
    past_key_values,  \* the cache the caller holds, as returned by the latest call
    trace,            \* the calls of the current decoding sequence, oldest first
    maskCall,         \* the arguments of the latest direct create_attention_mask call
    maskOut           \* what that call returned or raised

vars == <<config, call, out, past_key_values, trace, maskCall, maskOut>>

\* ------------------------------------------------------------------ bounds
\* largest text batch of a forward call
MaxBatch == 2
\* largest number of text tokens fed to one forward call
MaxN == 2
\* largest number of frames of a rank-5 pixel_values
MaxFrames == 2
\* largest num_image_with_embedding handed to set_vision_configs
MaxSlots == 2
\* largest number of calls carrying a cache in one decoding sequence
MaxSteps == 2
\* tokens the vision encoder returns for one image: the patches and the class
\* token, int((image_size / patch_size) ** 2 + 1) of the vision configuration
PatchTokens == 2
\* largest length of a cache handed to a single forward call
MaxPast == 2
\* largest memory length of a direct create_attention_mask call
MaxMemory == 2
\* largest text batch of a direct GitGPTBigCodeModel.forward call
MaxTextBatch == 4
\* largest image batch of a direct GitGPTBigCodeModel.forward call
MaxVisualBatch == 2

\* number of decoder blocks, config.n_layer
n_layer == 2
\* torch.finfo(dtype).min of the embedding dtype (float16)
FinfoMin == -65504

\* an absent optional integer
NoneInt == 0
\* an absent cache or tensor
None == << >>

\* ----------------------------------------------------------------- tensors
\* the indices of a dimension of size n
Idx(n) == 0..(n - 1)

\* a 2-D tensor: r rows, c columns, entry v[i][j]
\* torch.ones((r, c))
ones(r, c) == [r |-> r, c |-> c, v |-> [i \in Idx(r) |-> [j \in Idx(c) |-> 1]]]

\* torch.full((r, c), x)
full(r, c, x) == [r |-> r, c |-> c, v |-> [i \in Idx(r) |-> [j \in Idx(c) |-> x]]]

\* torch.tril(A, diagonal=0)
tril(A) ==
    [r |-> A.r, c |-> A.c,
     v |-> [i \in Idx(A.r) |-> [j \in Idx(A.c) |-> IF j <= i THEN A.v[i][j] ELSE 0]]]

\* torch.cat((A, B), dim=0): B's rows below A's
cat_dim0(A, B) ==
    [r |-> A.r + B.r, c |-> A.c,
     v |-> [i \in Idx(A.r + B.r) |-> [j \in Idx(A.c) |->
              IF i < A.r THEN A.v[i][j] ELSE B.v[i - A.r][j]]]]

\* torch.cat((A, B), dim=1): B's columns right of A's
cat_dim1(A, B) ==
    [r |-> A.r, c |-> A.c + B.c,
     v |-> [i \in Idx(A.r) |-> [j \in Idx(A.c + B.c) |->
              IF j < A.c THEN A.v[i][j] ELSE B.v[i][j - A.c]]]]

\* a 4-D tensor: shape <<d0, d1, d2, d3>>, entry v[a][b][c][d]
\* tensor.bool(): nonzero is True
to_bool(T) ==
    [shape |-> T.shape,
     v |-> [a \in Idx(T.shape[1]) |-> [b \in Idx(T.shape[2]) |->
              [c \in Idx(T.shape[3]) |-> [d \in Idx(T.shape[4]) |-> T.v[a][b][c][d] # 0]]]]]

\* tensor.transpose(1, 2)
transpose_1_2(T) ==
    [shape |-> <<T.shape[1], T.shape[3], T.shape[2], T.shape[4]>>,
     v |-> [a \in Idx(T.shape[1]) |-> [b \in Idx(T.shape[3]) |->
              [c \in Idx(T.shape[2]) |-> [d \in Idx(T.shape[4]) |-> T.v[a][c][b][d]]]]]]

\* the positions i, in order, with lo <= i <= hi
Range(lo, hi) == [k \in 1..(IF hi - lo + 1 < 0 THEN 0 ELSE hi - lo + 1) |-> lo + k - 1]

\* the batch rows of a 3-D tensor are given by the sequence of the rows they
\* were taken from
\* a replication that repeats each batch row k times in place
\* (repeat_interleave)
repeat_interleave_dim0(rows, k) ==
    [i \in 1..(Len(rows) * k) |-> rows[((i - 1) \div k) + 1]]

\* tensor.repeat(k, 1, 1): the whole batch k times, one copy after the other
repeat_dim0(rows, k) ==
    [i \in 1..(Len(rows) * k) |-> rows[((i - 1) % Len(rows)) + 1]]

\* the size of a dimension of a + b under broadcasting, -1 when the sizes a
\* and b do not broadcast
BroadcastDim(a, b) ==
    IF a = b THEN a ELSE IF a = 1 THEN b ELSE IF b = 1 THEN a ELSE -1

\* first index of the Python slice [-n:] of a dimension of the given size
SliceStart(size, n) == IF n = 0 THEN 0 ELSE IF size - n < 0 THEN 0 ELSE size - n

\* ------------------------------------------------------- _generate_future_mask
\* a future mask that leaves out the diagonal (diagonal=-1)
FutureMaskStrict(size) ==
    [r |-> size, c |-> size,
     v |-> [i \in Idx(size) |-> [j \in Idx(size) |-> IF j < i THEN 1 ELSE 0]]]

_generate_future_mask(size) == tril(ones(size, size))

\* ------------------------------------------------------- create_attention_mask
\* a memory_key_padding_mask argument: absent, or a [bsz, num_memory] tensor of
\* the given dtype

NoPadding == [given |-> FALSE, dtype |-> "bool", v |-> << >>]

\* the tgt_mask used for the bottom-right block (lines 162-167)
TgtMaskWithPast(tgt_mask, past_key_values_length) ==
    IF past_key_values_length > 0
    THEN ones(tgt_mask.r, tgt_mask.r + past_key_values_length)
    ELSE tgt_mask

\* a base mask whose top-right block is ones: visual rows see the text
FullAttentionMaskVisualSeesText(num_tgt, num_memory, tgt_mask, past_key_values_length) ==
    LET top_left == ones(num_memory, num_memory)
        top_right == full(num_memory, num_tgt + past_key_values_length, 1)
        bottom_left == ones(num_tgt, num_memory)
        tgt_mask2 == TgtMaskWithPast(tgt_mask, past_key_values_length)
    IN  cat_dim1(cat_dim0(top_left, bottom_left), cat_dim0(top_right, tgt_mask2))

\* the [M+N, M+past+N] mask before batching (lines 145-172)
FullAttentionMask(num_tgt, num_memory, tgt_mask, past_key_values_length) ==
    LET top_left == ones(num_memory, num_memory)
        top_right == full(num_memory, num_tgt + past_key_values_length, 0)
        bottom_left == ones(num_tgt, num_memory)
        tgt_mask2 == TgtMaskWithPast(tgt_mask, past_key_values_length)
        left == cat_dim0(top_left, bottom_left)
        right == cat_dim0(top_right, tgt_mask2)
    IN  cat_dim1(left, right)

\* a padding update that reads batch row 0 for every batch row
ZeroNegativeInfinityRowZero(pad, b, j) == IF pad.v[0][j] THEN -1 ELSE 0

\* zero_negative_infinity (lines 181-182): -1 where the padding mask is True
ZeroNegativeInfinity(pad, b, j) == IF pad.v[b][j] THEN -1 ELSE 0

\* the padding mask used when none is given (lines 174-177)
DefaultPadding(bsz, num_memory) ==
    [given |-> TRUE, dtype |-> "bool",
     v |-> [b \in 0..(bsz - 1) |-> [j \in 0..(num_memory - 1) |-> FALSE]]]

\* create_attention_mask(tgt, memory, tgt_mask, past_key_values_length,
\* memory_key_padding_mask): tgt has shape [_, num_tgt, _], memory has shape
\* [bsz, num_memory, _]. The result is a float tensor [bsz, 1, M+N, M+past+N],
\* or a ValueError.
create_attention_mask(num_tgt, bsz, num_memory, tgt_mask, past_key_values_length, memory_key_padding_mask) ==
    LET full_attention_mask ==
            FullAttentionMask(num_tgt, num_memory, tgt_mask, past_key_values_length)
        pad == IF memory_key_padding_mask.given
               THEN memory_key_padding_mask
               ELSE DefaultPadding(bsz, num_memory)
        rows == num_memory + num_tgt
        cols == num_memory + past_key_values_length + num_tgt
    IN  IF pad.dtype # "bool"
        THEN [error |-> "ValueError"]
        ELSE [error |-> "",
              mask |-> [shape |-> <<bsz, 1, rows, cols>>,
                        v |-> [b \in Idx(bsz) |-> [h \in Idx(1) |->
                                 [i \in Idx(rows) |-> [j \in Idx(cols) |->
                                    IF j < num_memory
                                    THEN full_attention_mask.v[i][j] + ZeroNegativeInfinity(pad, b, j)
                                    ELSE full_attention_mask.v[i][j]]]]]]]

\* --------------------------------------------- direct create_attention_mask calls
Bools01 == {0, 1}

\* the memory_key_padding_mask arguments of a [bsz, num_memory] memory
PaddingMasks(bsz, num_memory) ==
    {NoPadding}
    \cup {[given |-> TRUE, dtype |-> "bool", v |-> p] :
              p \in [0..(bsz - 1) -> [0..(num_memory - 1) -> BOOLEAN]]}
    \cup {[given |-> TRUE, dtype |-> "float",
            v |-> [b \in 0..(bsz - 1) |-> [j \in 0..(num_memory - 1) |-> FALSE]]]}

NoMaskCall == [bsz |-> 0, num_memory |-> 0, num_tgt |-> 0, past_key_values_length |-> 0, memory_key_padding_mask |-> NoPadding]

NoMaskOut == [error |-> "not called", mask |-> None]

\* create_attention_mask runs as forward calls it (lines 376-385), with the
\* memory_key_padding_mask of the call
CreateAttentionMask ==
    LET tgt_mask == _generate_future_mask(maskCall.num_tgt)
        r == create_attention_mask(maskCall.num_tgt, maskCall.bsz, maskCall.num_memory, tgt_mask, maskCall.past_key_values_length, maskCall.memory_key_padding_mask)
    IN  /\ maskOut.error = "not called"
        /\ maskOut' = IF r.error # "" THEN [error |-> r.error, mask |-> None]
                      ELSE [error |-> "", mask |-> r.mask]
        /\ UNCHANGED <<config, call, out, past_key_values, trace, maskCall>>

\* ------------------------------------------------------------ GitGPTBigCodeConfig
\* set_vision_configs (lines 58-60): one slot is stored as None
set_vision_configs(num_image_with_embedding) ==
    IF num_image_with_embedding = 1 THEN NoneInt ELSE num_image_with_embedding

\* self.image_patch_tokens (lines 106-110)
image_patch_tokens(cfg) ==
    IF cfg.num_image_with_embedding # NoneInt
    THEN PatchTokens * cfg.num_image_with_embedding
    ELSE PatchTokens

\* len(self.img_temporal_embedding), or -1 when __init__ did not create the
\* attribute (lines 100-104)
TemporalSlots(cfg) ==
    IF cfg.num_image_with_embedding # NoneInt THEN cfg.num_image_with_embedding ELSE -1

\* ------------------------------------------------------------------ _expand_mask
\* _expand_mask(mask, dtype, tgt_len) for a [bsz, src_len] mask of 0/1 (lines 80-87)
_expand_mask(mask, bsz, src_len, tgt_len) ==
    LET expanded_mask(b, j) == mask[b][j]
        inverted_mask(b, j) == 1 - expanded_mask(b, j)
    IN  [shape |-> <<bsz, 1, tgt_len, src_len>>,
         v |-> [b \in Idx(bsz) |-> [h \in Idx(1) |->
                  [i \in Idx(tgt_len) |-> [j \in Idx(src_len) |->
                     IF inverted_mask(b, j) # 0 THEN FinfoMin ELSE inverted_mask(b, j)]]]]]

\* --------------------------------------------------- GitGPTBigCodeModel.forward
NoPixels == [ndim |-> 0, num_frames |-> 0, batch_size |-> 0]
NoAttentionMask == [given |-> FALSE, v |-> << >>]
NoTokenTypeIds == [given |-> FALSE, shape |-> << >>]

\* what a rejected call leaves behind: the error and the stages run before it
Raise(err, computed) ==
    [error |-> err, computed |-> computed, num_visual |-> 0, frame_offsets |-> << >>,
     visual_rows |-> << >>, hidden_shape |-> << >>, position_ids |-> << >>,
     token_type_positions |-> << >>, attention_mask |-> None,
     layer_pasts |-> << >>, block_inputs |-> << >>, past_key_values |-> None]

\* the frame loop of a rank-5 pixel_values (lines 270-276), from frame_idx on
RECURSIVE FrameLoop(_, _, _, _, _)
FrameLoop(cfg, num_frames, frame_idx, computed, offsets) ==
    IF frame_idx >= num_frames
    THEN [error |-> "", computed |-> computed, frame_offsets |-> offsets]
    ELSE LET encoded == Append(computed, "image_encoder")
         IN  IF TemporalSlots(cfg) = -1
             THEN [error |-> "AttributeError", computed |-> encoded, frame_offsets |-> offsets]
             ELSE IF frame_idx >= TemporalSlots(cfg)
             THEN [error |-> "IndexError", computed |-> encoded, frame_offsets |-> offsets]
             ELSE FrameLoop(cfg, num_frames, frame_idx + 1, encoded, Append(offsets, frame_idx))

\* whether forward runs the vision encoder (line 263)
EncodesImage(c) == c.pixel_values # NoPixels /\ c.past_key_values = None

\* GIT vision encoder part (lines 262-283): the visual token count, the offset
\* added to each frame, or the error
VisionEncoder(cfg, c) ==
    IF ~EncodesImage(c)
    THEN [error |-> "", computed |-> << >>, num_visual |-> 0, frame_offsets |-> << >>]
    ELSE IF c.pixel_values.ndim = 4
    THEN [error |-> "", computed |-> <<"image_encoder", "visual_projection">>,
          num_visual |-> PatchTokens, frame_offsets |-> << >>]
    ELSE IF c.pixel_values.ndim = 5
    THEN LET loop == FrameLoop(cfg, c.pixel_values.num_frames, 0, << >>, << >>)
         IN  IF loop.error # ""
             THEN [error |-> loop.error, computed |-> loop.computed, num_visual |-> 0,
                   frame_offsets |-> loop.frame_offsets]
             ELSE [error |-> "", computed |-> Append(loop.computed, "visual_projection"),
                   num_visual |-> PatchTokens * c.pixel_values.num_frames,
                   frame_offsets |-> loop.frame_offsets]
    ELSE [error |-> "ValueError: rank", computed |-> << >>, num_visual |-> 0,
          frame_offsets |-> << >>]

\* projected_visual_features.size(0) before the repeat (lines 266, 273, 329-334):
\* the batch of pixel_values, or of inputs_embeds when no image is encoded
VisualBatch(c) == IF EncodesImage(c) THEN c.pixel_values.batch_size ELSE c.batch_size

\* the repeat and the concatenation with the text (lines 337-341): for each
\* batch row of hidden_states the row of the visual block it carries, or the
\* error of torch.cat on blocks of different batch sizes
FusedBatch(c) ==
    IF VisualBatch(c) = 0
    THEN [error |-> "ZeroDivisionError", visual_rows |-> << >>]
    ELSE LET repeated == repeat_dim0(Range(0, VisualBatch(c) - 1), c.batch_size \div VisualBatch(c))
         IN  IF Len(repeated) # c.batch_size
             THEN [error |-> "RuntimeError: cat", visual_rows |-> << >>]
             ELSE [error |-> "", visual_rows |-> repeated]

\* token_type_ids.view(-1, input_shape[-1]) (lines 248-249)
TokenTypeView(c) ==
    <<(c.token_type_ids.shape[1] * c.token_type_ids.shape[2]) \div c.N, c.N>>

\* hidden_states + self.wte(token_type_ids) (lines 368-370) on hidden_states of
\* shape [bsz, seq_len, _]: the shape of the sum and, for each position of the
\* fused sequence, the column of token_type_ids whose embedding is added to
\* it, or the error of an addition that does not broadcast
TokenTypeEmbeds(c, seq_len) ==
    IF ~c.token_type_ids.given
    THEN [error |-> "", shape |-> <<c.batch_size, seq_len>>, positions |-> << >>]
    ELSE LET token_type_embeds == TokenTypeView(c)
             rows == BroadcastDim(c.batch_size, token_type_embeds[1])
             cols == BroadcastDim(seq_len, token_type_embeds[2])
         IN  IF rows = -1 \/ cols = -1
             THEN [error |-> "RuntimeError: broadcast", shape |-> << >>, positions |-> << >>]
             ELSE [error |-> "", shape |-> <<rows, cols>>,
                   positions |-> [p \in 1..cols |->
                                     IF token_type_embeds[2] = 1 THEN 0 ELSE p - 1]]

\* past_length (lines 255-259)
PastLength(c) == IF c.past_key_values = None THEN 0 ELSE c.past_key_values[1]

\* position ids that do not start at the past length
PositionIdsFromZero(past_length, query_length, num_visual) ==
    [k \in 1..(query_length + num_visual) |-> k - 1]

\* position_ids when none are supplied (lines 343-353)
PositionIds(past_length, query_length, num_visual) ==
    [k \in 1..(query_length + num_visual) |-> past_length + k - 1]

\* a user mask ANDed into the last N columns on cached calls as well
ApplyUserMaskAlways(combined_attention_mask, c, past_length) ==
    IF ~c.attention_mask.given
    THEN combined_attention_mask
    ELSE LET expanded_attn_mask ==
                 to_bool(_expand_mask(c.attention_mask.v, c.batch_size, c.N, c.N))
             shape == combined_attention_mask.shape
             r0 == SliceStart(shape[3], c.N)
             c0 == SliceStart(shape[4], c.N)
             anded ==
                 [shape |-> shape,
                  v |-> [b \in Idx(shape[1]) |-> [h \in Idx(shape[2]) |->
                           [i \in Idx(shape[3]) |-> [j \in Idx(shape[4]) |->
                              IF i >= r0 /\ j >= c0
                              THEN combined_attention_mask.v[b][h][i][j]
                                   /\ expanded_attn_mask.v[b][h][i - r0][j - c0]
                              ELSE combined_attention_mask.v[b][h][i][j]]]]]]
         IN  anded

\* the user's attention_mask ANDed into the text block (lines 387-403)
ApplyUserMask(combined_attention_mask, c, past_length) ==
    IF ~c.attention_mask.given
    THEN combined_attention_mask
    ELSE LET expanded_attn_mask ==
                 to_bool(_expand_mask(c.attention_mask.v, c.batch_size, c.N, c.N))
             shape == combined_attention_mask.shape
             r0 == SliceStart(shape[3], c.N)
             c0 == SliceStart(shape[4], c.N)
             anded ==
                 [shape |-> shape,
                  v |-> [b \in Idx(shape[1]) |-> [h \in Idx(shape[2]) |->
                           [i \in Idx(shape[3]) |-> [j \in Idx(shape[4]) |->
                              IF i >= r0 /\ j >= c0
                              THEN combined_attention_mask.v[b][h][i][j]
                                   /\ expanded_attn_mask.v[b][h][i - r0][j - c0]
                              ELSE combined_attention_mask.v[b][h][i][j]]]]]]
         IN  IF past_length > 0 THEN combined_attention_mask ELSE anded

\* the mask handed to the decoder blocks (lines 376-406)
CombinedAttentionMask(cfg, c, num_visual, past_length) ==
    LET tgt_mask == _generate_future_mask(c.N)
        created == create_attention_mask(c.N, c.batch_size, num_visual, tgt_mask, past_length, NoPadding)
        masked == ApplyUserMask(to_bool(created.mask), c, past_length)
    IN  IF cfg.multi_query THEN transpose_1_2(masked) ELSE masked

\* the cache entry each decoder block receives (lines 408-409, 419, 442-444)
LayerPasts(c) ==
    IF c.past_key_values = None THEN [l \in 1..n_layer |-> NoneInt] ELSE c.past_key_values

\* whether the blocks run under torch.utils.checkpoint (line 423)
Checkpointing(cfg) == cfg.gradient_checkpointing /\ cfg.training

\* layer_past as block l receives it (lines 432-451): the checkpointed call
\* passes None in its place
BlockLayerPast(cfg, c, l) ==
    IF Checkpointing(cfg) THEN NoneInt ELSE LayerPasts(c)[l]

\* the arguments of each decoder block (lines 419-451); hidden_states by its
\* shape, head_mask[i] of get_head_mask(None, n_layer) is None
BlockInputs(cfg, c, use_cache, hidden_shape, combined_attention_mask) ==
    [l \in 1..n_layer |->
        [hidden_states |-> hidden_shape,
         layer_past |-> BlockLayerPast(cfg, c, l),
         attention_mask |-> combined_attention_mask,
         head_mask |-> None,
         use_cache |-> use_cache,
         output_attentions |-> c.output_attentions]]

\* presents (lines 413, 453-455): each block appends the fused sequence to the
\* cache entry it received (the blocks' interface; the blocks themselves are
\* GPTBigCodeBlock of the transformers library)
Presents(cfg, c, use_cache, num_visual) ==
    IF use_cache
    THEN [l \in 1..n_layer |-> BlockLayerPast(cfg, c, l) + num_visual + c.N]
    ELSE None

\* an input check that lets input_ids win when both are given
InputCheckIdsFirst(c) ==
    IF c.input_ids THEN (IF c.batch_size <= 0 THEN "ValueError: batch_size" ELSE "")
    ELSE IF ~c.inputs_embeds THEN "ValueError: neither"
    ELSE IF c.batch_size <= 0 THEN "ValueError: batch_size"
    ELSE ""

\* the input check of forward (lines 228-244)
InputCheck(c) ==
    IF c.input_ids /\ c.inputs_embeds THEN "ValueError: both"
    ELSE IF ~c.input_ids /\ ~c.inputs_embeds THEN "ValueError: neither"
    ELSE IF c.batch_size <= 0 THEN "ValueError: batch_size"
    ELSE ""

\* GitGPTBigCodeModel.forward (lines 200-488)
ModelForward(cfg, c, use_cache) ==
    IF InputCheck(c) # ""
    THEN Raise(InputCheck(c), << >>)
    ELSE LET past_length == PastLength(c)
             vision == VisionEncoder(cfg, c)
         IN  IF vision.error # ""
             THEN Raise(vision.error, vision.computed)
             ELSE LET M == vision.num_visual
                      embedded == vision.computed \o (IF c.inputs_embeds THEN << >> ELSE <<"wte">>)
                      fused == FusedBatch(c)
                      typed == TokenTypeEmbeds(c, M + c.N)
                      combined_attention_mask == CombinedAttentionMask(cfg, c, M, past_length)
                  IN  IF fused.error # ""
                      THEN Raise(fused.error, embedded)
                      ELSE IF typed.error # ""
                      THEN [Raise(typed.error, embedded \o <<"wpe", "wte(token_type_ids)">>)
                                EXCEPT !.visual_rows = fused.visual_rows]
                      ELSE [error |-> "",
                            computed |-> embedded \o <<"wpe">>
                                         \o (IF c.token_type_ids.given
                                             THEN <<"wte(token_type_ids)">> ELSE << >>)
                                         \o <<"create_attention_mask", "h", "ln_f">>,
                            num_visual |-> M,
                            frame_offsets |-> vision.frame_offsets,
                            visual_rows |-> fused.visual_rows,
                            hidden_shape |-> typed.shape,
                            position_ids |-> PositionIds(past_length, c.N, M),
                            token_type_positions |-> typed.positions,
                            attention_mask |-> combined_attention_mask,
                            layer_pasts |-> LayerPasts(c),
                            block_inputs |-> BlockInputs(cfg, c, use_cache, typed.shape,
                                                         combined_attention_mask),
                            past_key_values |-> Presents(cfg, c, use_cache, M)]

\* -------------------------------------------- GitGPTBigCodeForCausalLM.forward
\* tensor[:, positions].view(-1): batch-major pairs <<batch row, position>>
Flatten(bsz, positions) ==
    [k \in 1..(bsz * Len(positions)) |->
        <<(k - 1) \div Len(positions), positions[((k - 1) % Len(positions)) + 1]>>]

NoLoss == [given |-> FALSE, error |-> "", pairs |-> << >>]

\* the logit positions kept by logits[:, num_image_tokens:-1, :] (line 559)
ShiftedLogits(num_image_tokens, seq_len) == Range(num_image_tokens, seq_len - 2)

\* the label positions kept by labels[:, 1:] (line 560)
ShiftedLabels(num_labels) == Range(1, num_labels - 1)

\* the loss (lines 555-562): CrossEntropyLoss pairs the k-th flattened logit
\* with the k-th flattened label and rejects inputs of different lengths. Each
\* pair is <<batch row, logit position, label position>>.
Loss(cfg, c, seq_len) ==
    LET num_image_tokens == image_patch_tokens(cfg)
        shifted_logits == Flatten(c.batch_size, ShiftedLogits(num_image_tokens, seq_len))
        labels == Flatten(c.batch_size, ShiftedLabels(c.N))
    IN  IF Len(shifted_logits) # Len(labels)
        THEN [given |-> TRUE, error |-> "ValueError: batch_size mismatch", pairs |-> << >>]
        ELSE [given |-> TRUE, error |-> "",
              pairs |-> [k \in 1..Len(labels) |->
                            <<shifted_logits[k][1], shifted_logits[k][2], labels[k][2]>>]]

\* use_cache as the model receives it (lines 536-537, 225): off with labels, the
\* configuration's default (on) otherwise
UseCache(c) == ~c.labels

\* GitGPTBigCodeForCausalLM.forward (lines 504-574)
CausalLMForward(cfg, c) ==
    LET outputs == ModelForward(cfg, c, UseCache(c))
        loss == IF c.labels THEN Loss(cfg, c, outputs.hidden_shape[2]) ELSE NoLoss
    IN  IF outputs.error # ""
        THEN [model |-> outputs, error |-> outputs.error, logits_shape |-> << >>, loss |-> NoLoss]
        ELSE IF loss.error # ""
        THEN [model |-> outputs, error |-> loss.error, logits_shape |-> outputs.hidden_shape, loss |-> loss]
        ELSE [model |-> outputs, error |-> "", logits_shape |-> outputs.hidden_shape, loss |-> loss]

\* prepare_inputs_for_generation (lines 576-599): the last token only once a
\* cache exists, an all-ones attention mask when none is given
prepare_inputs_for_generation(bsz, input_len, past, pixel_values) ==
    LET N == IF past # None THEN 1 ELSE input_len
    IN  [input_ids |-> TRUE, inputs_embeds |-> FALSE, batch_size |-> bsz, N |-> N,
         pixel_values |-> pixel_values,
         attention_mask |-> [given |-> TRUE, v |-> [b \in 0..(bsz - 1) |-> [j \in 0..(N - 1) |-> 1]]],
         token_type_ids |-> NoTokenTypeIds, output_attentions |-> FALSE,
         past_key_values |-> past, labels |-> FALSE]

\* ------------------------------------------------------------------ the inputs
\* pixel_values arguments of batch size bv: absent, or of rank 3, 4 or 6, or
\* of rank 5 with some frames
PixelValues(bv) ==
    {NoPixels}
    \cup {[ndim |-> r, num_frames |-> 0, batch_size |-> bv] : r \in {3, 4, 6}}
    \cup {[ndim |-> 5, num_frames |-> f, batch_size |-> bv] : f \in 1..MaxFrames}

\* user attention masks over [bsz, N]: any first row, any second row, the
\* further rows like the second
AttentionMasks(bsz, N) ==
    {NoAttentionMask}
    \cup {[given |-> TRUE, v |-> [b \in 0..(bsz - 1) |-> IF b = 0 THEN u ELSE w]] :
              u \in [0..(N - 1) -> Bools01], w \in [0..(N - 1) -> Bools01]}

Cache(len) == [l \in 1..n_layer |-> len]

Caches == {None} \cup {Cache(len) : len \in 1..MaxPast}

\* modules in evaluation mode
Configs == [num_image_with_embedding : {set_vision_configs(S) : S \in 1..MaxSlots}, multi_query : BOOLEAN, training : {FALSE}, gradient_checkpointing : {FALSE}]

\* modules in either mode, with or without gradient checkpointing
Modules == [num_image_with_embedding : {set_vision_configs(S) : S \in 1..MaxSlots}, multi_query : BOOLEAN, training : BOOLEAN, gradient_checkpointing : BOOLEAN]

NoCall == [input_ids |-> FALSE, inputs_embeds |-> FALSE, batch_size |-> 0, N |-> 0, pixel_values |-> NoPixels, attention_mask |-> NoAttentionMask, token_type_ids |-> NoTokenTypeIds, output_attentions |-> FALSE, past_key_values |-> None, labels |-> FALSE]

NoOut == [model |-> Raise("not called", << >>), error |-> "not called", logits_shape |-> << >>, loss |-> NoLoss]

\* ------------------------------------------------------------------- the state
\* a model is built from a configuration and receives one forward call
Init ==
    /\ config \in Configs
    /\ \E ids \in BOOLEAN, embeds \in BOOLEAN, bsz \in 0..MaxBatch, N \in 1..MaxN :
           \E pix \in PixelValues(bsz), past \in Caches, labels \in BOOLEAN, am \in AttentionMasks(bsz, N) :
               call = [input_ids |-> ids, inputs_embeds |-> embeds, batch_size |-> bsz, N |-> N,
                       pixel_values |-> pix, attention_mask |-> am,
                       token_type_ids |-> NoTokenTypeIds, output_attentions |-> FALSE,
                       past_key_values |-> past, labels |-> labels]
    /\ out = NoOut
    /\ past_key_values = None
    /\ trace = << >>
    /\ maskCall = NoMaskCall
    /\ maskOut = NoMaskOut

\* GitGPTBigCodeForCausalLM.forward runs on the call's arguments
Forward ==
    /\ out.error = "not called"
    /\ out' = CausalLMForward(config, call)
    /\ UNCHANGED <<config, call, past_key_values, trace, maskCall, maskOut>>

Next == Forward

Spec == Init /\ [][Next]_vars

\* a model of the default configuration receives one direct
\* create_attention_mask call; create_attention_mask reads no configuration
InitMask ==
    /\ config = [num_image_with_embedding |-> set_vision_configs(1), multi_query |-> TRUE,
                 training |-> FALSE, gradient_checkpointing |-> FALSE]
    /\ call = NoCall
    /\ out = NoOut
    /\ past_key_values = None
    /\ trace = << >>
    /\ \E bsz \in 1..MaxBatch, num_memory \in 0..MaxMemory, num_tgt \in 1..MaxN, past \in 0..MaxPast :
           \E pad \in PaddingMasks(bsz, num_memory) :
               maskCall = [bsz |-> bsz, num_memory |-> num_memory, num_tgt |-> num_tgt,
                           past_key_values_length |-> past, memory_key_padding_mask |-> pad]
    /\ maskOut = NoMaskOut

NextMask == CreateAttentionMask

SpecMask == InitMask /\ [][NextMask]_vars

\* ----------------------------------------------------------- a decoding sequence
\* what the trace keeps of a call that returned
TraceEntry(c, o) ==
    [N |-> c.N, past_length |-> PastLength(c), num_visual |-> o.model.num_visual,
     position_ids |-> o.model.position_ids, pixel_given |-> c.pixel_values # NoPixels]

\* the caller runs call c and keeps the cache it returns; a rejected call
\* returns nothing
Step(c) ==
    /\ call' = c
    /\ out' = CausalLMForward(config, c)
    /\ past_key_values' = IF out'.error = "" THEN out'.model.past_key_values ELSE past_key_values
    /\ trace' = IF out'.error = "" THEN Append(trace, TraceEntry(c, out')) ELSE trace
    /\ UNCHANGED <<config, maskCall, maskOut>>

\* the first call of a sequence: no cache, a prompt of N tokens, any image
FirstStep ==
    /\ out.error = "not called"
    /\ \E bsz \in 1..MaxBatch, N \in 1..MaxN :
           \E pix \in PixelValues(bsz) :
               Step(prepare_inputs_for_generation(bsz, N, None, pix))

\* tokens the caller holds: the prompt and one per later call
InputLen == trace[1].N + Len(trace) - 1

\* a later call made through prepare_inputs_for_generation: the cache of the
\* previous call, the last token, the image passed again
NextStep ==
    /\ past_key_values # None
    /\ Len(trace) <= MaxSteps
    /\ Step(prepare_inputs_for_generation(call.batch_size, InputLen + 1, past_key_values, call.pixel_values))

\* a later call made directly: the cache of the previous call, N new tokens,
\* with or without the image
DirectStep ==
    /\ past_key_values # None
    /\ Len(trace) <= MaxSteps
    /\ \E N \in 1..MaxN, pix \in {NoPixels, call.pixel_values} :
           Step([input_ids |-> TRUE, inputs_embeds |-> FALSE, batch_size |-> call.batch_size,
                 N |-> N, pixel_values |-> pix, attention_mask |-> NoAttentionMask,
                 token_type_ids |-> NoTokenTypeIds, output_attentions |-> FALSE,
                 past_key_values |-> past_key_values, labels |-> FALSE])

InitDecode ==
    /\ config \in Configs
    /\ call = NoCall
    /\ out = NoOut
    /\ past_key_values = None
    /\ trace = << >>
    /\ maskCall = NoMaskCall
    /\ maskOut = NoMaskOut

NextDecode == FirstStep \/ NextStep \/ DirectStep

SpecDecode == InitDecode /\ [][NextDecode]_vars

\* ------------------------------------------- a direct GitGPTBigCodeModel.forward
\* token_type_ids arguments of a [bsz, N] text: absent, or of shape [bsz, N]
TokenTypeIds(bsz, N) == {NoTokenTypeIds, [given |-> TRUE, shape |-> <<bsz, N>>]}

\* pixel_values arguments of batch size bv that the vision encoder accepts by
\* their rank
ImageBatches(bv) == {NoPixels} \cup {p \in PixelValues(bv) : p.ndim \in {4, 5}}

\* a module in either mode receives one forward call with input_ids of shape
\* [bsz, N]
InitModel ==
    /\ config \in Modules
    /\ \E bsz \in 1..MaxTextBatch, N \in 1..MaxN, bv \in 1..MaxVisualBatch :
           \E pix \in ImageBatches(bv), tt \in TokenTypeIds(bsz, N), past \in {None, Cache(MaxPast)} :
               \E use_cache \in BOOLEAN, output_attentions \in BOOLEAN :
                   call = [input_ids |-> TRUE, inputs_embeds |-> FALSE, batch_size |-> bsz, N |-> N,
                           pixel_values |-> pix, attention_mask |-> NoAttentionMask,
                           token_type_ids |-> tt, output_attentions |-> output_attentions,
                           past_key_values |-> past, labels |-> FALSE, use_cache |-> use_cache]
    /\ out = NoOut
    /\ past_key_values = None
    /\ trace = << >>
    /\ maskCall = NoMaskCall
    /\ maskOut = NoMaskOut

\* GitGPTBigCodeModel.forward runs on the call's arguments
ModelCall ==
    /\ out.error = "not called"
    /\ LET outputs == ModelForward(config, call, call.use_cache)
       IN  out' = [model |-> outputs, error |-> outputs.error, logits_shape |-> << >>, loss |-> NoLoss]
    /\ UNCHANGED <<config, call, past_key_values, trace, maskCall, maskOut>>

NextModel == ModelCall

SpecModel == InitModel /\ [][NextModel]_vars

\* ------------------------------------------------------------------ the claims
\* entry (batch row b, row i, column j) of the mask the decoder blocks receive:
\* [bsz, 1, rows, cols], or [bsz, rows, 1, cols] in the multi-query layout
Entry(b, i, j) ==
    IF config.multi_query
    THEN out.model.attention_mask.v[b][i][0][j]
    ELSE out.model.attention_mask.v[b][0][i][j]

\* the call ran and the model's forward returned
ModelReturned == out.error # "not called" /\ out.model.error = ""

TextRows == 0..(call.N - 1)
BatchRows == 0..(call.batch_size - 1)

\* C1: without a cache, entry (text row i, text column j) of the mask handed to
\* the decoder blocks is true iff j <= i and the user marks position j valid.
C1_UserMaskKeepsValidCausal ==
    (ModelReturned /\ PastLength(call) = 0 /\ call.attention_mask.given) =>
        \A b \in BatchRows : \A i \in TextRows : \A j \in TextRows :
            Entry(b, out.model.num_visual + i, out.model.num_visual + j)
                <=> (j <= i /\ call.attention_mask.v[b][j] = 1)

\* entry (b, i, j) of the latest create_attention_mask result, read as boolean
MaskEntry(b, i, j) == maskOut.mask.v[b][0][i][j] # 0

MaskRows == 0..(maskCall.num_memory + maskCall.num_tgt - 1)
MaskCols == 0..(maskCall.num_memory + maskCall.past_key_values_length + maskCall.num_tgt - 1)
MaskBatch == 0..(maskCall.bsz - 1)
VisualCols == 0..(maskCall.num_memory - 1)

\* the call marks visual position j of batch row b as padded
Padded(b, j) ==
    maskCall.memory_key_padding_mask.given /\ maskCall.memory_key_padding_mask.v[b][j]

\* C3: in the mask of create_attention_mask, a padded visual column of a batch
\* row is false in every row, any other visual column is true in every row,
\* and two batch rows differ only in the visual columns they pad differently.
C3_PaddedColumnExcluded ==
    maskOut.error = "" =>
        /\ \A b \in MaskBatch : \A j \in VisualCols : \A i \in MaskRows :
               MaskEntry(b, i, j) <=> ~Padded(b, j)
        /\ \A b1 \in MaskBatch : \A b2 \in MaskBatch : \A i \in MaskRows : \A j \in MaskCols :
               (j < maskCall.num_memory /\ Padded(b1, j) # Padded(b2, j))
               \/ MaskEntry(b1, i, j) = MaskEntry(b2, i, j)

C3_Witness ==
    /\ maskOut.error = ""
    /\ maskCall.bsz >= 2 /\ maskCall.num_memory >= 2 /\ maskCall.past_key_values_length >= 1
    /\ Padded(0, 1) /\ ~Padded(1, 1) /\ ~Padded(0, 0)
    /\ ~MaskEntry(0, maskCall.num_memory, 1) /\ MaskEntry(1, 0, 1)

\* C4: with a cache, every entry of the text rows of the mask handed to the
\* decoder blocks is true, whatever the user mask.
C4_CachedBlockAllTrue ==
    (ModelReturned /\ PastLength(call) > 0) =>
        \A b \in BatchRows : \A i \in TextRows : \A j \in 0..(PastLength(call) + call.N - 1) :
            Entry(b, out.model.num_visual + i, out.model.num_visual + j)

C4_Witness ==
    /\ ModelReturned /\ PastLength(call) > 0 /\ call.N >= 2
    /\ call.attention_mask.given /\ call.batch_size >= 2
    /\ call.attention_mask.v[0][0] = 0 /\ call.attention_mask.v[1][1] = 1
    /\ out.model.attention_mask.shape[4] = PastLength(call) + call.N

\* the call pads no visual position
NoVisualPadding == \A b \in MaskBatch : \A j \in VisualCols : ~Padded(b, j)

\* C5: without visual padding, no visual row sees a text column and every text
\* row sees every visual column.
C5_OneDirectional ==
    (maskOut.error = "" /\ NoVisualPadding) =>
        \A b \in MaskBatch : \A i \in MaskRows : \A j \in MaskCols :
            /\ (i < maskCall.num_memory /\ j >= maskCall.num_memory) => ~MaskEntry(b, i, j)
            /\ (i >= maskCall.num_memory /\ j < maskCall.num_memory) => MaskEntry(b, i, j)

C5_Witness ==
    /\ maskOut.error = "" /\ NoVisualPadding
    /\ maskCall.num_memory >= 2 /\ maskCall.num_tgt >= 2 /\ maskCall.past_key_values_length >= 1
    /\ ~MaskEntry(0, 1, maskCall.num_memory) /\ MaskEntry(0, maskCall.num_memory, 1)

\* C6: with no visual token, no cache and no padding mask the composed mask is
\* the plain causal mask: shape [bsz, 1, N, N], entry (i, j) true iff j <= i.
C6_NoImageIsCausal ==
    (/\ maskOut.error = ""
     /\ maskCall.num_memory = 0
     /\ maskCall.past_key_values_length = 0
     /\ ~maskCall.memory_key_padding_mask.given) =>
        /\ maskOut.mask.shape = <<maskCall.bsz, 1, maskCall.num_tgt, maskCall.num_tgt>>
        /\ \A b \in MaskBatch : \A i \in 0..(maskCall.num_tgt - 1) : \A j \in 0..(maskCall.num_tgt - 1) :
               MaskEntry(b, i, j) <=> j <= i

C6_Witness ==
    /\ maskOut.error = ""
    /\ maskCall.num_memory = 0 /\ maskCall.past_key_values_length = 0
    /\ ~maskCall.memory_key_padding_mask.given
    /\ maskCall.num_tgt >= 2
    /\ MaskEntry(0, 1, 0) /\ ~MaskEntry(0, 0, 1)

\* the forward call ran: it returned or raised
Called == out.error # "not called"

\* C2: with labels, the loss pairs the logit at fused position M+t with label
\* t+1 for exactly t = 0..N-2, M being the call's visual token count.
C2_LossSkipsActualVisualTokens ==
    (ModelReturned /\ call.labels) =>
        /\ out.loss.error = ""
        /\ {out.loss.pairs[k] : k \in DOMAIN out.loss.pairs}
               = {<<b, out.model.num_visual + t, t + 1>> : b \in BatchRows, t \in 0..(call.N - 2)}

\* C7: a call with both or neither of input_ids and inputs_embeds is rejected
\* before anything is computed and returns nothing; a call with exactly one is
\* not rejected by this check.
C7_BothOrNeitherRejectedFirst ==
    Called =>
        IF call.input_ids = call.inputs_embeds
        THEN /\ out.error = (IF call.input_ids THEN "ValueError: both" ELSE "ValueError: neither")
             /\ out.model.computed = << >>
             /\ out.model.hidden_shape = << >> /\ out.logits_shape = << >>
             /\ out.model.past_key_values = None
        ELSE out.error \notin {"ValueError: both", "ValueError: neither"}

C7_Witness ==
    /\ Called /\ call.input_ids /\ call.inputs_embeds
    /\ call.pixel_values.ndim = 4 /\ call.past_key_values = None /\ call.batch_size >= 1
    /\ out.error = "ValueError: both" /\ out.model.computed = << >>

\* the temporal embedding slots S the configuration was set up with
Slots == IF config.num_image_with_embedding = NoneInt THEN 1 ELSE config.num_image_with_embedding

\* C9: a rank-5 input of F frames is rejected if F > S; if 1 <= F <= S it is
\* accepted, offset f is added to frame f and the visual sequence has P x F
\* tokens.
C9_FramesWithinSlotsAccepted ==
    (Called /\ InputCheck(call) = "" /\ call.past_key_values = None /\ call.pixel_values.ndim = 5) =>
        IF call.pixel_values.num_frames > Slots
        THEN out.error # ""
        ELSE /\ out.model.error = ""
             /\ out.model.frame_offsets = Range(0, call.pixel_values.num_frames - 1)
             /\ out.model.num_visual = PatchTokens * call.pixel_values.num_frames

\* C10: a call whose image tensor has a rank other than 4 or 5 is rejected and
\* returns nothing, with or without a cache.
C10_BadRankAlwaysRejected ==
    (Called /\ call.pixel_values # NoPixels /\ call.pixel_values.ndim \notin {4, 5}) =>
        /\ out.error # ""
        /\ out.model.hidden_shape = << >>

\* the sequence so far is incremental decoding: a first call without cache,
\* then calls that feed one token with the cache of the previous call
Incremental ==
    /\ Len(trace) >= 1
    /\ \A k \in 2..Len(trace) : trace[k].N = 1

\* the position indices the calls of the sequence used, in order
RECURSIVE Used(_)
Used(k) == IF k = 0 THEN << >> ELSE Used(k - 1) \o trace[k].position_ids

\* C8: in incremental decoding the first call uses the indices 0..M+N-1, the
\* k-th later call the single index M+N+k-1, which is its past length; the
\* indices of the sequence are contiguous, and a call with a cache has no
\* visual token.
C8_PositionsContiguous ==
    Incremental =>
        LET first == trace[1].num_visual + trace[1].N
        IN  /\ trace[1].past_length = 0
            /\ trace[1].position_ids = Range(0, first - 1)
            /\ \A k \in 1..(Len(trace) - 1) :
                   /\ trace[k + 1].position_ids = <<first + k - 1>>
                   /\ trace[k + 1].past_length = first + k - 1
                   /\ trace[k + 1].num_visual = 0
            /\ Used(Len(trace)) = Range(0, first + Len(trace) - 2)

C8_Witness ==
    /\ Incremental /\ Len(trace) = 3
    /\ trace[1].num_visual >= 2 /\ trace[1].N >= 2
    /\ trace[2].pixel_given /\ trace[3].pixel_given
    /\ trace[3].position_ids = <<trace[1].num_visual + trace[1].N + 1>>

\* C11: a call with token_type_ids of shape [batch, N], whose image and batch
\* sizes are otherwise accepted, returns; a token-type embedding is added at
\* each position of the fused sequence and the output has M + N positions, M
\* being the number of visual tokens of the call.
C11_TokenTypesAccepted ==
    (/\ Called
     /\ call.token_type_ids.given
     /\ call.token_type_ids.shape = <<call.batch_size, call.N>>
     /\ VisionEncoder(config, call).error = ""
     /\ FusedBatch(call).error = "") =>
        LET M == VisionEncoder(config, call).num_visual
        IN  /\ out.error = ""
            /\ out.model.hidden_shape = <<call.batch_size, M + call.N>>
            /\ Len(out.model.token_type_positions) = M + call.N

\* the visual block reached the concatenation with the text
VisualBlockBuilt == Called /\ VisionEncoder(config, call).error = ""

\* C12: when the text batch Bt is a multiple of the batch Bv of the visual
\* block, the concatenation succeeds, the fused sequence has batch Bt and its
\* row b carries visual row b mod Bv; otherwise the call fails and returns
\* no fused sequence.
C12_VisualBlockTiled ==
    VisualBlockBuilt =>
        IF call.batch_size % VisualBatch(call) = 0
        THEN /\ out.error \notin {"RuntimeError: cat", "ZeroDivisionError"}
             /\ out.model.visual_rows = [b \in 1..call.batch_size |-> (b - 1) % VisualBatch(call)]
             /\ out.error = "" => out.model.hidden_shape[1] = call.batch_size
        ELSE /\ out.error = "RuntimeError: cat"
             /\ out.model.visual_rows = << >>
             /\ out.model.hidden_shape = << >>

C12_Witness ==
    /\ ModelReturned
    /\ out.model.num_visual > 0
    /\ VisualBatch(call) = 2 /\ call.batch_size = 4
    /\ out.model.visual_rows = <<0, 1, 0, 1>>

\* C13: each decoder block receives the inputs it receives when gradient
\* checkpointing is off, among them its entry of the caller's cache.
C13_CheckpointingTransparent ==
    ModelReturned =>
        LET plain == ModelForward([config EXCEPT !.gradient_checkpointing = FALSE], call, call.use_cache)
        IN  \A l \in 1..n_layer :
                /\ out.model.block_inputs[l] = plain.block_inputs[l]
                /\ out.model.block_inputs[l].layer_past = LayerPasts(call)[l]

====
